---- MODULE Spec2Model ----
(***************************************************************************)
(* MediaForge job orchestration core (src-tauri/src): the task registry,   *)
(* the supervision records, the supervised execution of a download with    *)
(* its retry loop, child process and progress task, and the caller-facing  *)
(* operations submit / cancel / pause / remove of DownloadManager.         *)
(* ConversionManager (converter.rs) has the same registry, the same        *)
(* cancel_task and, for video, the same supervised execution; it differs   *)
(* in constants (timeout, retry policy) that are named where they occur.   *)
(*                                                                         *)
(* Granularity: one action per stretch of code that runs between two       *)
(* suspension points of a future, between two operations on the shared     *)
(* maps where start_download races the task it has just spawned, and one   *)
(* action per environment event (a child process exiting).  tokio's        *)
(* select! polls its ready arms in random order: every ready arm is an     *)
(* enabled action.  tokio::spawn puts the new task on a multi-threaded     *)
(* runtime, so it runs concurrently with the spawning code.                *)
(***************************************************************************)
EXTENDS Integers, Sequences, FiniteSets, TLC

\* ------------------------------------------------------------------ bounds
\* A behaviour follows one scenario, which bounds what the environment does:
\* the tasks submitted, the cancel / pause / remove calls, the output lines
\* the children print and the children that end with the retryable exit
\* code 1.
\* One task in depth:
MaxOps == 2
MaxLines == 2
MaxFails == 5
\* The same under fair scheduling, with fewer output lines:
MaxFairLines == 1
\* A batch of tasks side by side, left alone by the user:
MaxTasks == 2
\* Calls of retry_async and calculate_delay on their own: the largest
\* max_attempts of a policy and the largest attempt number asked a delay for.
MaxPolicy == 5
MaxDelayAttempt == 66
\* Lines fed to one FFmpegProgress tracker.
MaxFed == 3

\* ------------------------------------------------------------ text helpers
\* Option<T> of the source: None is the empty sequence, Some(v) is <<v>>.
None == << >>

Some(v) == <<v>>

IsSome(o) == Len(o) = 1

Unwrap(o) == o[1]

\* str::starts_with at offset i (1-based).
MatchAt(s, pat, i) ==
    /\ i >= 1
    /\ i + Len(pat) - 1 <= Len(s)
    /\ SubSeq(s, i, i + Len(pat) - 1) = pat

\* Position of the first occurrence of pat in s at or after from, 0 if none.
RECURSIVE Find(_, _, _)
Find(s, pat, from) ==
    IF from + Len(pat) - 1 > Len(s) THEN 0
    ELSE IF MatchAt(s, pat, from) THEN from
    ELSE Find(s, pat, from + 1)

\* str::contains
Contains(s, pat) == Find(s, pat, 1) # 0

\* str::ends_with
EndsWith(s, pat) == MatchAt(s, pat, Len(s) - Len(pat) + 1)

\* str::trim_end_matches(c): strips every trailing c.
RECURSIVE TrimEndMatches(_, _)
TrimEndMatches(s, c) ==
    IF Len(s) > 0 /\ SubSeq(s, Len(s), Len(s)) = c
    THEN TrimEndMatches(SubSeq(s, 1, Len(s) - 1), c)
    ELSE s

\* s.split(pat).nth(1): the text between the first and the second
\* occurrence of pat (to the end if there is no second), None if pat does
\* not occur.
SplitNth1(s, pat) ==
    LET i == Find(s, pat, 1) IN
    IF i = 0 THEN None
    ELSE LET start == i + Len(pat)
             j == Find(s, pat, start)
         IN  Some(SubSeq(s, start, IF j = 0 THEN Len(s) ELSE j - 1))

\* End (exclusive) of the run of non-blank characters that starts at i.
RECURSIVE WordEnd(_, _)
WordEnd(s, i) ==
    IF i > Len(s) \/ SubSeq(s, i, i) = " " THEN i ELSE WordEnd(s, i + 1)

\* str::split_whitespace, collected: the sequence of non-blank words.
RECURSIVE SplitFrom(_, _)
SplitFrom(s, i) ==
    IF i > Len(s) THEN << >>
    ELSE IF SubSeq(s, i, i) = " " THEN SplitFrom(s, i + 1)
    ELSE LET e == WordEnd(s, i) IN <<SubSeq(s, i, e - 1)>> \o SplitFrom(s, e)

SplitWhitespace(s) == SplitFrom(s, 1)

\* Iterator::find on a sequence of words: the first word ending with pat.
RECURSIVE FindEndsWith(_, _)
FindEndsWith(ws, pat) ==
    IF ws = << >> THEN None
    ELSE IF EndsWith(Head(ws), pat) THEN Some(Head(ws))
    ELSE FindEndsWith(Tail(ws), pat)

\* split_whitespace().next()
FirstWord(s) ==
    LET ws == SplitWhitespace(s) IN IF ws = << >> THEN None ELSE Some(Head(ws))

Digits == <<"0", "1", "2", "3", "4", "5", "6", "7", "8", "9">>

IsDigit(c) == \E d \in 1..10 : Digits[d] = c

DigitVal(c) == (CHOOSE d \in 1..10 : Digits[d] = c) - 1

AllDigits(s) == \A i \in 1..Len(s) : IsDigit(SubSeq(s, i, i))

\* Value of a string of digits.
RECURSIVE DecimalVal(_)
DecimalVal(s) ==
    IF Len(s) = 0 THEN 0
    ELSE 10 * DecimalVal(SubSeq(s, 1, Len(s) - 1)) + DigitVal(SubSeq(s, Len(s), Len(s)))

\* str::parse::<f32> on decimal text [+-]digits[.digits]; anything else is a
\* parse error (None).  A percentage is kept in tenths of a percent: 45.2
\* is 452.  Digits after the first decimal are dropped.
ParseF32(s) ==
    LET neg  == Len(s) > 0 /\ SubSeq(s, 1, 1) = "-"
        pos  == Len(s) > 0 /\ SubSeq(s, 1, 1) = "+"
        body == IF neg \/ pos THEN SubSeq(s, 2, Len(s)) ELSE s
        dot  == Find(body, ".", 1)
        ip   == IF dot = 0 THEN body ELSE SubSeq(body, 1, dot - 1)
        fp   == IF dot = 0 THEN "" ELSE SubSeq(body, dot + 1, Len(body))
        mag  == 10 * DecimalVal(ip)
                  + (IF Len(fp) = 0 THEN 0 ELSE DigitVal(SubSeq(fp, 1, 1)))
    IN  IF Len(ip) + Len(fp) = 0 \/ ~AllDigits(ip) \/ ~AllDigits(fp) THEN None
        ELSE Some(IF neg THEN 0 - mag ELSE mag)

\* ---------------------------------------------------------- progress parser
\* parse_ytdlp_progress: None for a line without "[download]", otherwise
\* ProgressInfo {percentage, speed, eta}.
parse_ytdlp_progress(line) ==
    IF ~Contains(line, "[download]") THEN None
    ELSE LET w   == FindEndsWith(SplitWhitespace(line), "%")
             p   == IF IsSome(w) THEN ParseF32(TrimEndMatches(Unwrap(w), "%")) ELSE None
             at  == SplitNth1(line, "at")
             eta == SplitNth1(line, "ETA")
         IN  Some([percentage |-> IF IsSome(p) THEN Unwrap(p) ELSE 0,
                   speed      |-> IF IsSome(at) THEN FirstWord(Unwrap(at)) ELSE None,
                   eta        |-> IF IsSome(eta) THEN FirstWord(Unwrap(eta)) ELSE None])

\* str::trim_start_matches(c) / str::trim_matches(c)
RECURSIVE TrimStartMatches(_, _)
TrimStartMatches(s, c) ==
    IF Len(s) > 0 /\ SubSeq(s, 1, 1) = c
    THEN TrimStartMatches(SubSeq(s, 2, Len(s)), c)
    ELSE s

TrimMatches(s, c) == TrimEndMatches(TrimStartMatches(s, c), c)

\* The progress task's file name extraction: for a line with
\* "[download] Destination:", "[Merger]" or "[ExtractAudio]", the text
\* after "Destination:", else after "Merging formats into", else after
\* "to:", trimmed of blanks and then of double quotes.
extract_file_path(line) ==
    IF ~(\/ Contains(line, "[download] Destination:")
         \/ Contains(line, "[Merger]")
         \/ Contains(line, "[ExtractAudio]"))
    THEN None
    ELSE LET a  == SplitNth1(line, "Destination:")
             b  == SplitNth1(line, "Merging formats into")
             c  == SplitNth1(line, "to:")
             fp == IF IsSome(a) THEN a ELSE IF IsSome(b) THEN b ELSE c
         IN  IF IsSome(fp)
             THEN Some(TrimMatches(TrimMatches(Unwrap(fp), " "), "\""))
             ELSE None

\* Output lines a yt-dlp child may print (the model's input alphabet).
Lines ==
    { "[download]  45.2% of 9MiB at 1MiB/s ETA 00:45",
      "[download] 150.0% of ~9MiB at 2MiB/s ETA 00:01",
      "[download] Destination: a.mp4",
      "[Merger] Merging formats into a.mp4" }

\* The parser applied to every line of the alphabet.
ParsedLine == [l \in Lines |-> parse_ytdlp_progress(l)]

\* The file name extraction applied to every line of the alphabet.
FilePathOf == [l \in Lines |-> extract_file_path(l)]

\* --------------------------------------------------- FFmpegProgress parser
\* End (exclusive) of the run of digits that starts at i.
RECURSIVE DigitsEnd(_, _)
DigitsEnd(s, i) ==
    IF i > Len(s) \/ ~IsDigit(SubSeq(s, i, i)) THEN i ELSE DigitsEnd(s, i + 1)

\* Regex "Duration: (\d+):(\d+):(\d+)\.(\d+)": the captures of the
\* leftmost match at or after from, None if there is no match.
RECURSIVE duration_captures(_, _)
duration_captures(line, from) ==
    LET i == Find(line, "Duration: ", from) IN
    IF i = 0 THEN None
    ELSE LET h0 == i + Len("Duration: ")
             h1 == DigitsEnd(line, h0)
             m1 == DigitsEnd(line, h1 + 1)
             s1 == DigitsEnd(line, m1 + 1)
             f1 == DigitsEnd(line, s1 + 1)
         IN  IF /\ h1 > h0     /\ MatchAt(line, ":", h1)
                /\ m1 > h1 + 1 /\ MatchAt(line, ":", m1)
                /\ s1 > m1 + 1 /\ MatchAt(line, ".", s1)
                /\ f1 > s1 + 1
             THEN Some(<<SubSeq(line, h0, h1 - 1), SubSeq(line, h1 + 1, m1 - 1),
                         SubSeq(line, m1 + 1, s1 - 1), SubSeq(line, s1 + 1, f1 - 1)>>)
             ELSE duration_captures(line, i + 1)

\* str::parse::<u64>().unwrap_or(0): an optional "+" and digits; anything
\* else (a sign, a blank, no digit) is a parse error and gives 0.
parse_u64_or_0(s) ==
    LET body == IF Len(s) > 0 /\ SubSeq(s, 1, 1) = "+" THEN SubSeq(s, 2, Len(s)) ELSE s
    IN  IF Len(body) > 0 /\ AllDigits(body) THEN DecimalVal(body) ELSE 0

\* FFmpegProgress::new
NewFFmpegProgress == [duration_ms |-> None, current_ms |-> 0]

\* A parse_line that would never record the duration.
parse_line_forgets_duration(self, line) ==
    [self |-> IF MatchAt(line, "out_time_ms=", 1)
              THEN [self EXCEPT !.current_ms =
                       parse_u64_or_0(TrimMatches(
                          SubSeq(line, Len("out_time_ms=") + 1, Len(line)), " "))]
              ELSE self,
     out  |-> None]

\* FFmpegProgress::parse_line(&mut self, line): the tracker after the call
\* and the returned Option<f32>, a percentage kept in tenths of a percent
\* (the f32 quotient truncated).
parse_line(self, line) ==
    LET caps == IF Contains(line, "Duration:")
                THEN duration_captures(line, 1) ELSE None
        dur  == IF IsSome(caps)
                THEN LET c == Unwrap(caps) IN
                     Some((parse_u64_or_0(c[1]) * 3600 + parse_u64_or_0(c[2]) * 60
                             + parse_u64_or_0(c[3])) * 1000
                          + parse_u64_or_0(c[4]) * 10)
                ELSE self.duration_ms
        pos  == MatchAt(line, "out_time_ms=", 1)
        cur  == IF pos
                THEN parse_u64_or_0(TrimMatches(
                        SubSeq(line, Len("out_time_ms=") + 1, Len(line)), " "))
                ELSE self.current_ms
        pct  == IF IsSome(dur) /\ Unwrap(dur) > 0
                THEN (cur * 1000) \div Unwrap(dur) ELSE 0
    IN  [self |-> [duration_ms |-> dur, current_ms |-> cur],
         out  |-> IF pos /\ IsSome(dur) /\ Unwrap(dur) > 0
                  THEN Some(IF pct > 1000 THEN 1000 ELSE pct)
                  ELSE None]

\* Lines an ffmpeg child prints (the input alphabet of the tracker): three
\* duration headers, one of them without a value, three out_time_ms
\* progress lines and a line of another kind.
FfmpegLines ==
    { "  Duration: 00:01:23.45, start: 0.000000, bitrate: 1234 kb/s",
      "  Duration: 00:00:10.00, start: 0.000000, bitrate: 800 kb/s",
      "  Duration: N/A, start: 0.000000, bitrate: N/A",
      "out_time_ms=41725",
      "out_time_ms=5000",
      "out_time_ms=166900",
      "frame=  100 fps= 25" }

\* The tracker applied to every line of the alphabet in every tracker
\* state these lines lead to.
TrackerStates ==
    {NewFFmpegProgress} \cup
    {[duration_ms |-> d, current_ms |-> c] :
        d \in {None, Some(83450), Some(10000)}, c \in {0, 41725, 5000, 166900}}

ParsedFfmpegLine ==
    [self \in TrackerStates |-> [l \in FfmpegLines |-> parse_line(self, l)]]

\* str::parse::<u64>(): an optional "+" and digits; anything else is a
\* parse error (None).
parse_u64(s) ==
    LET body == IF Len(s) > 0 /\ SubSeq(s, 1, 1) = "+" THEN SubSeq(s, 2, Len(s)) ELSE s
    IN  IF Len(body) > 0 /\ AllDigits(body) THEN Some(DecimalVal(body)) ELSE None

\* estimated_total_ms of parse_ffmpeg_progress: 10 minutes.
estimated_total_ms == 600000

\* parse_ffmpeg_progress(line): for an "out_time_ms=" line whose value
\* parses and is positive, the position over estimated_total_ms, at most
\* 100, kept in tenths of a percent (the f32 quotient truncated).
parse_ffmpeg_progress(line) ==
    LET cur == IF MatchAt(line, "out_time_ms=", 1)
               THEN parse_u64(TrimMatches(
                       SubSeq(line, Len("out_time_ms=") + 1, Len(line)), " "))
               ELSE None
    IN  IF IsSome(cur) /\ Unwrap(cur) > 0
        THEN LET pct == (Unwrap(cur) * 1000) \div estimated_total_ms IN
             Some(IF pct > 1000 THEN 1000 ELSE pct)
        ELSE None

\* The stateless parser applied to every line of the alphabet.
ParsedFfmpegProgress == [l \in FfmpegLines |-> parse_ffmpeg_progress(l)]

\* ------------------------------------------------------------------ errors
\* A MediaForgeError value: its variant and its message.
MediaForgeError(kind, msg) == [kind |-> kind, msg |-> msg]

\* thiserror's Display of each variant (to_string).
Display(e) ==
    CASE e.kind = "YtDlpError"      -> "yt-dlp error: " \o e.msg
      [] e.kind = "FFmpegError"     -> "FFmpeg error: " \o e.msg
      [] e.kind = "FileSystemError" -> "File system error: " \o e.msg
      [] e.kind = "NetworkError"    -> "Network error (retryable): " \o e.msg
      [] e.kind = "DiskSpaceError"  -> "Insufficient disk space: " \o e.msg
      [] e.kind = "PermissionError" -> "Permission denied: " \o e.msg
      [] e.kind = "TemporaryError"  -> "Temporary failure (retry recommended): " \o e.msg
      [] e.kind = "DownloadError"   -> "Download failed: " \o e.msg
      [] e.kind = "ConversionError" -> "Conversion failed: " \o e.msg
      [] e.kind = "InvalidUrl"      -> "Invalid URL: " \o e.msg
      [] e.kind = "TaskNotFound"    -> "Task not found: " \o e.msg
      [] e.kind = "InvalidSettings" -> "Invalid settings: " \o e.msg
      [] e.kind = "MissingDependency" -> "System dependency missing: " \o e.msg
      [] e.kind = "ResourceExhausted" -> "Resource exhausted: " \o e.msg

\* Whether msg contains one of the patterns.
ContainsAny(msg, pats) == \E p \in pats : Contains(msg, p)

\* MediaForgeError::is_retryable
is_retryable(e) ==
    CASE e.kind = "NetworkError"   -> TRUE
      [] e.kind = "TemporaryError" -> TRUE
      [] e.kind = "YtDlpError" ->
            ContainsAny(e.msg, {"network", "timeout", "connection", "temporary",
                                "503", "502", "429"})
      [] e.kind = "FFmpegError" ->
            ContainsAny(e.msg, {"resource temporarily unavailable",
                                "interrupted system call"})
      [] e.kind = "FileSystemError" ->
            ContainsAny(e.msg, {"resource temporarily unavailable", "device busy"})
      [] OTHER -> FALSE

UpperCase == "ABCDEFGHIJKLMNOPQRSTUVWXYZ"

LowerCase == "abcdefghijklmnopqrstuvwxyz"

\* str::to_lowercase (ASCII letters).
RECURSIVE to_lowercase(_)
to_lowercase(s) ==
    IF Len(s) = 0 THEN ""
    ELSE LET c == SubSeq(s, 1, 1)
             k == Find(UpperCase, c, 1)
         IN  (IF k = 0 THEN c ELSE SubSeq(LowerCase, k, k))
                 \o to_lowercase(SubSeq(s, 2, Len(s)))

\* DownloadManager::classify_ytdlp_error(message, exit_code); exit_code is
\* an Option<i32>.
classify_ytdlp_error(message, exit_code) ==
    LET msg_lower == to_lowercase(message) IN
    IF \/ ContainsAny(msg_lower, {"network", "connection", "timeout",
                                  "temporary failure", "503", "502", "504", "429"})
       \/ exit_code = Some(1)
    THEN MediaForgeError("NetworkError", message)
    ELSE IF \/ ContainsAny(msg_lower, {"private video", "not available", "geo-blocked"})
            \/ exit_code = Some(2)
    THEN MediaForgeError("YtDlpError", message)
    ELSE IF ContainsAny(msg_lower, {"no space left", "disk full"})
    THEN MediaForgeError("DiskSpaceError", message)
    ELSE IF exit_code = Some(1) \/ Contains(msg_lower, "interrupted")
    THEN MediaForgeError("TemporaryError", message)
    ELSE MediaForgeError("YtDlpError", message)

\* A classifier that would have no permission branch.
classify_ffmpeg_error_no_permission(message, exit_code) ==
    LET msg_lower == to_lowercase(message) IN
    IF \/ ContainsAny(msg_lower, {"resource temporarily unavailable",
                                  "device busy", "interrupted system call"})
       \/ exit_code = Some(1)
    THEN MediaForgeError("TemporaryError", message)
    ELSE IF ContainsAny(msg_lower, {"no space left", "disk full", "write error"})
    THEN MediaForgeError("DiskSpaceError", message)
    ELSE IF \/ ContainsAny(msg_lower, {"invalid data", "unsupported", "no decoder",
                                       "invalid file format"})
            \/ exit_code = Some(255)
    THEN MediaForgeError("FFmpegError", message)
    ELSE MediaForgeError("TemporaryError", message)

\* ConversionManager::classify_ffmpeg_error(message, exit_code)
classify_ffmpeg_error(message, exit_code) ==
    LET msg_lower == to_lowercase(message) IN
    IF \/ ContainsAny(msg_lower, {"resource temporarily unavailable",
                                  "device busy", "interrupted system call"})
       \/ exit_code = Some(1)
    THEN MediaForgeError("TemporaryError", message)
    ELSE IF ContainsAny(msg_lower, {"no space left", "disk full", "write error"})
    THEN MediaForgeError("DiskSpaceError", message)
    ELSE IF \/ ContainsAny(msg_lower, {"permission denied", "access denied"})
            \/ exit_code = Some(126)
    THEN MediaForgeError("PermissionError", message)
    ELSE IF \/ ContainsAny(msg_lower, {"invalid data", "unsupported", "no decoder",
                                       "invalid file format"})
            \/ exit_code = Some(255)
    THEN MediaForgeError("FFmpegError", message)
    ELSE MediaForgeError("TemporaryError", message)

\* RetryConfig::for_network
for_network ==
    [max_attempts |-> 5, base_delay |-> 3, max_delay |-> 30,
     exponential_backoff |-> TRUE]

\* RetryConfig::for_filesystem
for_filesystem ==
    [max_attempts |-> 2, base_delay |-> 1, max_delay |-> 5,
     exponential_backoff |-> FALSE]

\* RetryConfig::default
default_config ==
    [max_attempts |-> 3, base_delay |-> 2, max_delay |-> 60,
     exponential_backoff |-> TRUE]

\* The RetryConfig literal of test_retry_mechanism.
test_config ==
    [max_attempts |-> 3, base_delay |-> 0, max_delay |-> 0,
     exponential_backoff |-> FALSE]

\* Width of the u64 that calculate_delay computes in.
U64Bits == 64

\* u32::saturating_sub
saturating_sub(a, b) == IF a >= b THEN a - b ELSE 0

\* Whether base * 2_u64.pow(e) leaves the u64 range: the power itself does
\* for e >= 64, the product does when base >= 2^(64 - e).  (The model's
\* integers are below 2^31, so a base reaches 2^(64 - e) only for
\* 64 - e <= 30.)
delay_overflows(base, e) ==
    \/ e >= U64Bits
    \/ /\ U64Bits - e <= 30
       /\ base >= 2^(U64Bits - e)

\* min((base * 2^e) mod 2^64, cap), the value of
\* (base * 2_u64.pow(e)).min(cap) in wrapping arithmetic, computed without
\* leaving the model's integers: the wrapped power is 0 for e >= 64; else
\* the wrapped product is r * 2^e with r = base mod 2^(64 - e), and it
\* reaches cap iff r >= ceil(cap / 2^e).
wrapping_delay(base, e, cap) ==
    IF e >= U64Bits THEN 0
    ELSE LET r == IF U64Bits - e <= 30 THEN base % (2^(U64Bits - e)) ELSE base
         IN  IF r = 0 THEN 0
             ELSE IF e > 30 THEN cap
             ELSE IF r >= (cap + 2^e - 1) \div (2^e) THEN cap
             ELSE r * 2^e

\* RetryConfig::calculate_delay(attempt).  An arithmetic overflow panics in
\* a build with overflow checks (None) and wraps in a build without.
calculate_delay(config, attempt, overflow_checks) ==
    IF config.exponential_backoff
    THEN LET e == saturating_sub(attempt, 1) IN
         IF overflow_checks /\ delay_overflows(config.base_delay, e)
         THEN None
         ELSE Some(wrapping_delay(config.base_delay, e, config.max_delay))
    ELSE Some(config.base_delay)

\* Result<T, MediaForgeError>
Ok(v) == [ok |-> TRUE, val |-> v]

Err(e) == [ok |-> FALSE, err |-> e]

\* A match that would give up on the first error.
retry_decide_first_error_final(config, attempt, ok, retryable) ==
    IF ok THEN "return_ok" ELSE "return_err"

\* A match that would not ask whether the error is retryable.
retry_decide_any_error_retried(config, attempt, ok, retryable) ==
    IF ok THEN "return_ok"
    ELSE IF attempt < config.max_attempts THEN "sleep"
    ELSE "return_err"

\* A match that would sleep after the last attempt too.
retry_decide_one_more(config, attempt, ok, retryable) ==
    IF ok THEN "return_ok"
    ELSE IF ~retryable THEN "return_err"
    ELSE IF attempt <= config.max_attempts THEN "sleep"
    ELSE "return_err"

\* retry_async, the match on the result of attempt number `attempt`: return
\* the value, return the error (not retryable, or the last attempt), or
\* sleep and go round the loop.
\* A loop that would retry a retryable error whatever the attempt number.
retry_decide_unbounded(config, attempt, ok, retryable) ==
    IF ok THEN "return_ok"
    ELSE IF ~retryable THEN "return_err"
    ELSE "sleep"

retry_decide(config, attempt, ok, retryable) ==
    IF ok THEN "return_ok"
    ELSE IF ~retryable THEN "return_err"
    ELSE IF attempt < config.max_attempts THEN "sleep"
    ELSE "return_err"

\* Exit codes a child that was not killed may end with.
ExitCodes == {0, 1, 2}

\* status.code() of the model's exit statuses; a child killed by a signal
\* has no code.
StatusCodes == {None} \cup {Some(c) : c \in ExitCodes}

\* format!("{:?}", status.code())
DebugCode(code) ==
    IF ~IsSome(code) THEN "None"
    ELSE CASE Unwrap(code) = 0 -> "Some(0)"
           [] Unwrap(code) = 1 -> "Some(1)"
           [] Unwrap(code) = 2 -> "Some(2)"
           [] OTHER            -> "Some(?)"

\* What the retry loop and the reconcile read of an error: whether it is
\* retryable and its text.
Outcome(e) == [err |-> e, retryable |-> is_retryable(e), text |-> Display(e)]

\* The error download_single_attempt returns for a non-zero exit status.
AttemptExitError == 
    [code \in StatusCodes |->
        Outcome(classify_ytdlp_error(
                  "Download failed with exit code: " \o DebugCode(code), code))]

\* A cancellation arm that would return a network error.
AttemptCancelledAsNetworkError ==
    Outcome(MediaForgeError("NetworkError", "Download was cancelled"))

\* The error download_single_attempt returns from its cancellation arm.
AttemptCancelledError ==
    Outcome(MediaForgeError("YtDlpError", "Download was cancelled"))

\* The error convert_video_attempt returns from its cancellation arm.
ConversionCancelledError ==
    Outcome(MediaForgeError("FFmpegError", "Conversion was cancelled"))

\* The error of a failed cmd.spawn().
SpawnError ==
    Outcome(MediaForgeError("YtDlpError",
                            "Failed to spawn yt-dlp: No such file or directory"))

\* The errors of validate_disk_space and validate_write_permissions.
PrecheckErrors ==
    { Outcome(MediaForgeError("DiskSpaceError", "Insufficient disk space")),
      Outcome(MediaForgeError("PermissionError", "Cannot write to directory")) }

\* ------------------------------------------------------------------- state
TaskIds == 1..MaxTasks

VARIABLES
    tasks,         \* DownloadManager.tasks: task id -> TaskProgress
    nextId,        \* number of ids create_task has generated (Uuid::new_v4)
    task_handles,  \* DownloadManager.task_handles: ids that have a TaskHandle
    token,         \* per task: its CancellationToken is cancelled
    exec,          \* per task: the supervised execution (the spawned future)
    child,         \* per task: the yt-dlp child process of the current attempt
    prog,          \* per task: the progress task of the current attempt reads
    sub,           \* the start_download call in progress
    canc,          \* per task: a cancel_task call awaits the join handle
    returned,      \* ids start_download has returned in Ok(task_ids)
    left,          \* what the scenario still allows the environment
    probe,         \* a call of retry_async, calculate_delay, a classifier or
                   \* is_retryable on its own, as error_recovery_tests makes
    pending,       \* per task: the line the progress task has read and whose
                   \* callback has not run yet
    emitted,       \* ids whose snapshot the last step pushed ("task-update")
    cancel_hit,    \* history, per task: the last cancel_task call for it was
                   \* made, with an id start_download had returned, while
                   \* its work was in progress
    missed         \* history: the id of the cancel_task or pause_task call
                   \* the last step made, if it was the id of a task that
                   \* had been removed from the registry

vars ==
    <<tasks, nextId, task_handles, token, exec, child, prog, sub, canc,
      returned, left, probe, pending, emitted, cancel_hit, missed>>

\* TaskProgress as create_task builds it.
NewTask ==
    [name |-> "Downloading from url", status |-> "Queued", progress |-> 0,
     speed |-> None, eta |-> None, error |-> None, file_path |-> None]

NoChild == [st |-> "none", code |-> None, signalled |-> FALSE]

NoCall == [pc |-> "idle", n |-> 0, items |-> << >>, ids |-> << >>, base |-> 0]

Scenarios ==
    { [tasks |-> 1, ops |-> MaxOps, lines |-> MaxLines, fails |-> MaxFails],
      [tasks |-> MaxTasks, ops |-> 0, lines |-> 0, fails |-> 0] }

\* No call on its own is running.
NoProbe == [fn |-> "none"]

\* The manager as DownloadManager::new leaves it.
Fresh ==
    /\ tasks = << >>
    /\ nextId = 0
    /\ task_handles = {}
    /\ token = [t \in TaskIds |-> FALSE]
    /\ exec = [t \in TaskIds |-> [pc |-> "none", attempt |-> 0]]
    /\ child = [t \in TaskIds |-> NoChild]
    /\ prog = [t \in TaskIds |-> FALSE]
    /\ sub = NoCall
    /\ canc = [t \in TaskIds |-> FALSE]
    /\ returned = {}
    /\ pending = [t \in TaskIds |-> None]
    /\ emitted = {}
    /\ cancel_hit = [t \in TaskIds |-> FALSE]
    /\ missed = {}

Init ==
    /\ Fresh
    /\ left \in Scenarios
    /\ probe = NoProbe

\* ---------------------------------------------------------------- registry
\* create_task: insert a Queued task under a fresh id.
create_task(reg, id) == [t \in DOMAIN reg \cup {id} |-> IF t = id THEN NewTask ELSE reg[t]]

\* update_task that would leave a task in a terminal status as it is.
update_task_keep_terminal(reg, task_id, update) ==
    IF task_id \in DOMAIN reg
       /\ reg[task_id].status \notin {"Completed", "Failed", "Cancelled"}
    THEN [reg EXCEPT ![task_id] =
            [f \in DOMAIN @ |-> IF f \in DOMAIN update THEN update[f] ELSE @[f]]]
    ELSE reg

\* update_task that would insert a task that is not in the map.
update_task_upsert(reg, task_id, update) ==
    [t \in DOMAIN reg \cup {task_id} |->
        LET old == IF t \in DOMAIN reg THEN reg[t] ELSE NewTask IN
        IF t = task_id
        THEN [f \in DOMAIN old |-> IF f \in DOMAIN update THEN update[f] ELSE old[f]]
        ELSE old]

\* update_task: apply the update (the fields the closure assigns) iff the
\* task is in the map.
update_task(reg, task_id, update) ==
    IF task_id \in DOMAIN reg
    THEN [reg EXCEPT ![task_id] =
            [f \in DOMAIN @ |-> IF f \in DOMAIN update THEN update[f] ELSE @[f]]]
    ELSE reg

\* remove_task
remove_task(reg, task_id) == [t \in DOMAIN reg \ {task_id} |-> reg[t]]

\* ------------------------------------------------------------ start_download
\* start_download is called with a destination that sanitize_path accepts or
\* not and with urls, each of which validate_youtube_url accepts or not.
\* A bad destination returns the error before the loop; an empty list
\* returns Ok at once.
StartDownload(destOk, items) ==
    /\ emitted' = {}
    /\ missed' = {}
    /\ sub.pc = "idle"
    /\ Len(items) <= left.tasks
    /\ sub' = IF destOk /\ items # << >>
              THEN [pc |-> "loop", n |-> Len(items), items |-> items,
                    ids |-> << >>, base |-> nextId]
              ELSE NoCall
    /\ UNCHANGED <<probe, tasks, nextId, task_handles, token, exec, child, prog, canc, returned, left, pending, cancel_hit>>

\* Loop head: validate_youtube_url(url)? returns the error, dropping
\* task_ids; otherwise create_task.
SubmitCreate ==
    /\ emitted' = {}
    /\ missed' = {}
    /\ sub.pc = "loop"
    /\ IF Head(sub.items)
       THEN /\ nextId' = nextId + 1
            /\ tasks' = create_task(tasks, nextId + 1)
            /\ sub' = [sub EXCEPT !.pc = "created", !.ids = Append(@, nextId + 1)]
            /\ left' = [left EXCEPT !.tasks = @ - 1]
       ELSE /\ sub' = NoCall
            /\ UNCHANGED <<tasks, nextId, left>>
    /\ UNCHANGED <<probe, task_handles, token, exec, child, prog, canc, returned, pending, cancel_hit>>

\* The id of the task the loop body is working on.
SubmitCur == sub.ids[Len(sub.ids)]

\* A loop body that would spawn without the Downloading write.
SubmitSetActiveSkipped ==
    /\ emitted' = {}
    /\ missed' = {}
    /\ sub.pc = "created"
    /\ sub' = [sub EXCEPT !.pc = "active"]
    /\ UNCHANGED <<probe, tasks, nextId, task_handles, token, exec, child, prog, canc,
                   returned, left, pending, cancel_hit>>

\* A loop body whose Downloading write would address the id of the task
\* created before this one.
SubmitSetActivePrevious ==
    /\ emitted' = {}
    /\ missed' = {}
    /\ sub.pc = "created"
    /\ tasks' = update_task(tasks, SubmitCur - 1, [status |-> "Downloading"])
    /\ sub' = [sub EXCEPT !.pc = "active"]
    /\ UNCHANGED <<probe, nextId, task_handles, token, exec, child, prog, canc, returned, left, pending, cancel_hit>>

\* update_task(&task_id, status = Downloading), before the spawn.
SubmitSetActive ==
    /\ emitted' = {}
    /\ missed' = {}
    /\ sub.pc = "created"
    /\ tasks' = update_task(tasks, SubmitCur, [status |-> "Downloading"])
    /\ sub' = [sub EXCEPT !.pc = "active"]
    /\ UNCHANGED <<probe, nextId, task_handles, token, exec, child, prog, canc, returned, left, pending, cancel_hit>>

\* tokio::spawn of the supervised execution.
SubmitSpawn ==
    /\ emitted' = {}
    /\ missed' = {}
    /\ sub.pc = "active"
    /\ exec' = [exec EXCEPT ![SubmitCur] = [pc |-> "start", attempt |-> 0]]
    /\ sub' = [sub EXCEPT !.pc = "spawned"]
    /\ UNCHANGED <<probe, tasks, nextId, task_handles, token, child, prog, canc, returned, left, pending, cancel_hit>>

\* task_handles.insert of the new TaskHandle; after the last url the call
\* returns Ok(task_ids).
SubmitInsert ==
    /\ emitted' = {}
    /\ missed' = {}
    /\ sub.pc = "spawned"
    /\ task_handles' = task_handles \cup {SubmitCur}
    /\ IF Tail(sub.items) = << >>
       THEN /\ sub' = NoCall
            /\ returned' = returned \cup {sub.ids[i] : i \in 1..Len(sub.ids)}
       ELSE /\ sub' = [sub EXCEPT !.pc = "loop", !.items = Tail(@)]
            /\ UNCHANGED returned
    /\ UNCHANGED <<probe, tasks, nextId, token, exec, child, prog, canc, left, pending, cancel_hit>>

\* ----------------------------------------------------- supervised execution
ExecDone == [pc |-> "done", attempt |-> 0]

\* Suspension points of the work arm, where the outer select! can take
\* another arm.
Suspended(t) == exec[t].pc \in {"start", "wait", "kill", "sleep"}

\* An end of the execution on Err(e) that would skip the Failed write.
FailWorkUnwritten(t, e) ==
    /\ tasks' = tasks
    /\ emitted' = {t}
    /\ missed' = {}
    /\ task_handles' = task_handles \ {t}
    /\ exec' = [exec EXCEPT ![t] = [pc |-> "done", attempt |-> 0]]

\* The work arm returned Err(e): the task is written Failed, the record is
\* removed and the execution ends.
FailWork(t, e) ==
    /\ tasks' = update_task(tasks, t, [status |-> "Failed", error |-> Some(e.text)])
    /\ emitted' = {t}
    /\ missed' = {}
    /\ task_handles' = task_handles \ {t}
    /\ exec' = [exec EXCEPT ![t] = ExecDone]

\* retry_async on Err(e) of attempt number k: give up on an error that is
\* not retryable or on the last attempt, sleep otherwise.  handles is
\* task_handles as the attempt left it.
RetryOrFail(t, k, e, handles) ==
    IF retry_decide(for_network, k, FALSE, e.retryable) = "sleep"
    THEN /\ exec' = [exec EXCEPT ![t] = [pc |-> "sleep", attempt |-> k]]
         /\ task_handles' = handles
         /\ emitted' = {}
         /\ missed' = {}
         /\ UNCHANGED tasks
    ELSE FailWork(t, e)

\* download_single_attempt up to its wait: cmd.spawn() and the spawn of the
\* progress task; a failed cmd.spawn() is the attempt's error.
StartAttempt(t, k) ==
    \/ /\ child' = [child EXCEPT ![t] = [st |-> "alive", code |-> None,
                                         signalled |-> FALSE]]
       /\ prog' = [prog EXCEPT ![t] = TRUE]
       /\ exec' = [exec EXCEPT ![t] = [pc |-> "wait", attempt |-> k]]
       /\ emitted' = {}
       /\ missed' = {}
       /\ UNCHANGED <<tasks, task_handles>>
    \/ /\ RetryOrFail(t, k, SpawnError, task_handles)
       /\ UNCHANGED <<child, prog>>

\* First poll of the work arm: download_single_cancellable validates disk
\* space and write permissions, then retry_async starts attempt 1.
ExecPrecheck(t) ==
    /\ exec[t].pc = "start"
    /\ \/ \E e \in PrecheckErrors : FailWork(t, e) /\ UNCHANGED <<child, prog>>
       \/ StartAttempt(t, 1)
    /\ UNCHANGED <<probe, nextId, token, sub, canc, returned, left, pending, cancel_hit>>

\* The yt-dlp process ends: with an exit code, or by the signal it was sent.
\* Nobody reads the status of a child whose execution has ended.
ChildExit(t) ==
    /\ emitted' = {}
    /\ missed' = {}
    /\ child[t].st = "alive"
    /\ \E c \in ExitCodes :
          LET code == IF child[t].signalled THEN None ELSE Some(c) IN
          /\ code = Some(1) => left.fails > 0
          /\ child' = [child EXCEPT ![t] =
                         IF exec[t].pc = "done" THEN NoChild
                         ELSE [st |-> "exited", code |-> code,
                               signalled |-> child[t].signalled]]
          /\ left' = IF code = Some(1) /\ exec[t].pc # "done"
                     THEN [left EXCEPT !.fails = @ - 1] ELSE left
    /\ UNCHANGED <<probe, tasks, nextId, task_handles, token, exec, prog, sub, canc, returned, pending, cancel_hit>>

\* An attempt that would return a network error without waiting for the
\* child to exit.
AttemptExitUnwaited(t) ==
    /\ exec[t].pc = "wait"
    /\ child[t].st \in {"alive", "exited"}
    /\ prog' = [prog EXCEPT ![t] = FALSE]
    /\ child' = child
    /\ RetryOrFail(t, exec[t].attempt, AttemptExitError[Some(1)],
                   task_handles \ {t})
    /\ UNCHANGED <<probe, nextId, token, sub, canc, returned, left, pending, cancel_hit>>

\* select! arm child.wait(): progress_handle.abort(), then the Completed
\* write or the classified error, with task_handles.remove either way.
AttemptExit(t) ==
    /\ exec[t].pc = "wait"
    /\ child[t].st = "exited"
    /\ prog' = [prog EXCEPT ![t] = FALSE]
    /\ child' = [child EXCEPT ![t] = NoChild]
    /\ IF child[t].code = Some(0)
       THEN /\ tasks' = update_task(tasks, t, [status |-> "Completed", progress |-> 1000])
            /\ task_handles' = task_handles \ {t}
            /\ exec' = [exec EXCEPT ![t] = ExecDone]
            /\ emitted' = {t}
            /\ missed' = {}
       ELSE RetryOrFail(t, exec[t].attempt, AttemptExitError[child[t].code],
                        task_handles \ {t})
    /\ UNCHANGED <<probe, nextId, token, sub, canc, returned, left, pending, cancel_hit>>

\* select! arm cancellation_token.cancelled() of the attempt: child.kill()
\* sends the signal and waits for the exit.
AttemptCancel(t) ==
    /\ emitted' = {}
    /\ missed' = {}
    /\ exec[t].pc = "wait"
    /\ token[t]
    /\ child' = [child EXCEPT ![t].signalled = (@ \/ child[t].st = "alive")]
    /\ exec' = [exec EXCEPT ![t].pc = "kill"]
    /\ UNCHANGED <<probe, tasks, nextId, task_handles, token, prog, sub, canc, returned, left, pending, cancel_hit>>

\* The killed child has exited: progress_handle.abort() and
\* Err("Download was cancelled"), which goes through retry_async.
AttemptKilled(t) ==
    /\ exec[t].pc = "kill"
    /\ child[t].st = "exited"
    /\ prog' = [prog EXCEPT ![t] = FALSE]
    /\ child' = [child EXCEPT ![t] = NoChild]
    /\ RetryOrFail(t, exec[t].attempt, AttemptCancelledError, task_handles)
    /\ UNCHANGED <<probe, nextId, token, sub, canc, returned, left, pending, cancel_hit>>

\* retry_async wakes from its sleep and starts the next attempt.
RetryWake(t) ==
    /\ exec[t].pc = "sleep"
    /\ StartAttempt(t, exec[t].attempt + 1)
    /\ UNCHANGED <<probe, nextId, token, sub, canc, returned, left, pending, cancel_hit>>

\* Outer select! arm cancellation_token.cancelled(): the work future is
\* dropped where it is suspended.
ExecCancelArm(t) ==
    /\ emitted' = {}
    /\ missed' = {}
    /\ Suspended(t)
    /\ token[t]
    /\ tasks' = update_task(tasks, t, [status |-> "Cancelled",
                                       error |-> Some("Task was cancelled by user")])
    /\ task_handles' = task_handles \ {t}
    /\ exec' = [exec EXCEPT ![t] = ExecDone]
    /\ UNCHANGED <<probe, nextId, token, child, prog, sub, canc, returned, left, pending, cancel_hit>>

\* A timeout arm that would leave the record in task_handles.
ExecTimeoutKeepsRecord(t) ==
    /\ emitted' = {}
    /\ missed' = {}
    /\ Suspended(t)
    /\ tasks' = update_task(tasks, t, [status |-> "Failed",
                                       error |-> Some("Download timed out after 1 hour")])
    /\ exec' = [exec EXCEPT ![t] = ExecDone]
    /\ UNCHANGED <<probe, nextId, task_handles, token, child, prog, sub, canc,
                   returned, left, pending, cancel_hit>>

\* Outer select! arm sleep(3600 s): the work future is dropped where it is
\* suspended.
ExecTimeout(t) ==
    /\ emitted' = {}
    /\ missed' = {}
    /\ Suspended(t)
    /\ tasks' = update_task(tasks, t, [status |-> "Failed",
                                       error |-> Some("Download timed out after 1 hour")])
    /\ task_handles' = task_handles \ {t}
    /\ exec' = [exec EXCEPT ![t] = ExecDone]
    /\ UNCHANGED <<probe, nextId, token, child, prog, sub, canc, returned, left, pending, cancel_hit>>

\* ------------------------------------------------------------ progress task
\* lines.next_line() returned a line to the progress task.  The callback
\* that follows has no suspension point, so progress_handle.abort() (which
\* takes effect at the task's next suspension point) does not stop it.
ProgressLine(t, line) ==
    /\ prog[t]
    /\ pending[t] = None
    /\ child[t].st = "alive"
    /\ left.lines > 0
    /\ left' = [left EXCEPT !.lines = @ - 1]
    /\ pending' = [pending EXCEPT ![t] = Some(line)]
    /\ emitted' = {}
    /\ missed' = {}
    /\ UNCHANGED <<probe, tasks, nextId, task_handles, token, exec, child, prog, sub, canc, returned, cancel_hit>>

\* What the callback writes for a line: progress, speed and eta of a
\* parsed line (with an emit), then file_path and name of a line that
\* names the output file.
CallbackWrites(reg, t, line) ==
    LET a == IF IsSome(ParsedLine[line])
             THEN update_task(reg, t,
                     [progress |-> Unwrap(ParsedLine[line]).percentage,
                      speed    |-> Unwrap(ParsedLine[line]).speed,
                      eta      |-> Unwrap(ParsedLine[line]).eta])
             ELSE reg
    IN  IF IsSome(FilePathOf[line])
        THEN update_task(a, t, [file_path |-> FilePathOf[line],
                                name      |-> Unwrap(FilePathOf[line])])
        ELSE a

\* The callback of the line read: the writes and the emit.
ProgressCallback(t) ==
    /\ IsSome(pending[t])
    /\ tasks' = CallbackWrites(tasks, t, Unwrap(pending[t]))
    /\ emitted' = IF IsSome(ParsedLine[Unwrap(pending[t])]) THEN {t} ELSE {}
    /\ missed' = {}
    /\ pending' = [pending EXCEPT ![t] = None]
    /\ UNCHANGED <<probe, nextId, task_handles, token, exec, child, prog, sub, canc, returned, left, cancel_hit>>

\* End of the child's output.
ProgressEof(t) ==
    /\ emitted' = {}
    /\ missed' = {}
    /\ prog[t]
    /\ pending[t] = None
    /\ child[t].st # "alive"
    /\ prog' = [prog EXCEPT ![t] = FALSE]
    /\ UNCHANGED <<probe, tasks, nextId, task_handles, token, exec, child, sub, canc, returned, left, pending, cancel_hit>>

\* The progress task's own cancellation arm.
ProgressCancelled(t) ==
    /\ emitted' = {}
    /\ missed' = {}
    /\ prog[t]
    /\ pending[t] = None
    /\ token[t]
    /\ prog' = [prog EXCEPT ![t] = FALSE]
    /\ UNCHANGED <<probe, tasks, nextId, task_handles, token, exec, child, sub, canc, returned, left, pending, cancel_hit>>

\* -------------------------------------------------- cancel / pause / remove
CancelledByUser == [status |-> "Cancelled", error |-> Some("Task cancelled by user")]

\* The work of a task is in progress: a child of it runs, or its retry
\* loop sleeps between two attempts.
InProgress(t) ==
    \/ exec[t].pc = "wait" /\ child[t].st = "alive"
    \/ exec[t].pc = "sleep"

\* A cancel_task that would await the join handle without cancelling the
\* token.
cancel_task_unsignalled(t) ==
    /\ emitted' = {}
    /\ missed' = IF t \in 1..nextId /\ t \notin DOMAIN tasks THEN {t} ELSE {}
    /\ left.ops > 0
    /\ left' = [left EXCEPT !.ops = @ - 1]
    /\ tasks' = update_task(tasks, t, CancelledByUser)
    /\ IF t \in task_handles
       THEN /\ task_handles' = task_handles \ {t}
            /\ canc' = [canc EXCEPT ![t] = TRUE]
       ELSE UNCHANGED <<task_handles, canc>>
    /\ token' = token
    /\ cancel_hit' = [cancel_hit EXCEPT ![t] = (InProgress(t) /\ t \in returned)]
    /\ UNCHANGED <<probe, nextId, exec, child, prog, sub, returned, pending>>

\* A cancel_task that would read the record and leave it in the map.
cancel_task_keeps_record(t) ==
    /\ emitted' = {}
    /\ missed' = IF t \in 1..nextId /\ t \notin DOMAIN tasks THEN {t} ELSE {}
    /\ left.ops > 0
    /\ left' = [left EXCEPT !.ops = @ - 1]
    /\ tasks' = update_task(tasks, t, CancelledByUser)
    /\ IF t \in task_handles
       THEN /\ token' = [token EXCEPT ![t] = TRUE]
            /\ canc' = [canc EXCEPT ![t] = TRUE]
       ELSE UNCHANGED <<token, canc>>
    /\ task_handles' = task_handles
    /\ cancel_hit' = [cancel_hit EXCEPT ![t] = (InProgress(t) /\ t \in returned)]
    /\ UNCHANGED <<probe, nextId, exec, child, prog, sub, returned, pending>>

\* cancel_task up to its await: with a record, remove it, write Cancelled,
\* cancel the token and await the join handle; without one, write Cancelled
\* and return Ok.
cancel_task(t) ==
    /\ emitted' = {}
    /\ missed' = IF t \in 1..nextId /\ t \notin DOMAIN tasks THEN {t} ELSE {}
    /\ left.ops > 0
    /\ left' = [left EXCEPT !.ops = @ - 1]
    /\ tasks' = update_task(tasks, t, CancelledByUser)
    /\ IF t \in task_handles
       THEN /\ task_handles' = task_handles \ {t}
            /\ token' = [token EXCEPT ![t] = TRUE]
            /\ canc' = [canc EXCEPT ![t] = TRUE]
       ELSE UNCHANGED <<task_handles, token, canc>>
    /\ cancel_hit' = [cancel_hit EXCEPT ![t] = (InProgress(t) /\ t \in returned)]
    /\ UNCHANGED <<probe, nextId, exec, child, prog, sub, returned, pending>>

\* The awaited join handle resolves: cancel_task returns Ok.
CancelReturn(t) ==
    /\ emitted' = {}
    /\ missed' = {}
    /\ canc[t]
    /\ exec[t].pc = "done"
    /\ canc' = [canc EXCEPT ![t] = FALSE]
    /\ UNCHANGED <<probe, tasks, nextId, task_handles, token, exec, child, prog, sub, returned, left, pending, cancel_hit>>

\* A pause_task that would also raise the task's cancellation signal.
pause_task_cancels(t) ==
    /\ emitted' = {}
    /\ missed' = IF t \in 1..nextId /\ t \notin DOMAIN tasks THEN {t} ELSE {}
    /\ left.ops > 0
    /\ left' = [left EXCEPT !.ops = @ - 1]
    /\ tasks' = update_task(tasks, t, [status |-> "Paused"])
    /\ token' = [token EXCEPT ![t] = TRUE]
    /\ UNCHANGED <<probe, nextId, task_handles, exec, child, prog, sub, canc, returned, pending, cancel_hit>>

\* pause_task: the status write; nothing is done to the execution.
pause_task(t) ==
    /\ emitted' = {}
    /\ missed' = IF t \in 1..nextId /\ t \notin DOMAIN tasks THEN {t} ELSE {}
    /\ left.ops > 0
    /\ left' = [left EXCEPT !.ops = @ - 1]
    /\ tasks' = update_task(tasks, t, [status |-> "Paused"])
    /\ UNCHANGED <<probe, nextId, task_handles, token, exec, child, prog, sub, canc, returned, pending, cancel_hit>>

\* A remove_task that would also drop the task's record.
RemoveTaskDropsRecord(t) ==
    /\ emitted' = {}
    /\ missed' = {}
    /\ left.ops > 0
    /\ left' = [left EXCEPT !.ops = @ - 1]
    /\ tasks' = remove_task(tasks, t)
    /\ task_handles' = task_handles \ {t}
    /\ UNCHANGED <<probe, nextId, token, exec, child, prog, sub, canc, returned, pending, cancel_hit>>

\* commands::remove_task
RemoveTask(t) ==
    /\ emitted' = {}
    /\ missed' = {}
    /\ left.ops > 0
    /\ left' = [left EXCEPT !.ops = @ - 1]
    /\ tasks' = remove_task(tasks, t)
    /\ UNCHANGED <<probe, nextId, task_handles, token, exec, child, prog, sub, canc, returned, pending, cancel_hit>>

\* ----------------------------------------------------------- specification
\* The url lists of a submit: each url valid or not.
Batches == UNION {[1..n -> BOOLEAN] : n \in 0..MaxTasks}

Next ==
    \/ \E d \in BOOLEAN, items \in Batches : StartDownload(d, items)
    \/ SubmitCreate
    \/ SubmitSetActive
    \/ SubmitSpawn
    \/ SubmitInsert
    \/ \E t \in TaskIds : ExecPrecheck(t)
    \/ \E t \in TaskIds : ChildExit(t)
    \/ \E t \in TaskIds : AttemptExit(t)
    \/ \E t \in TaskIds : AttemptCancel(t)
    \/ \E t \in TaskIds : AttemptKilled(t)
    \/ \E t \in TaskIds : RetryWake(t)
    \/ \E t \in TaskIds : ExecCancelArm(t)
    \/ \E t \in TaskIds : ExecTimeout(t)
    \/ \E t \in TaskIds, l \in Lines : ProgressLine(t, l)
    \/ \E t \in TaskIds : ProgressCallback(t)
    \/ \E t \in TaskIds : ProgressEof(t)
    \/ \E t \in TaskIds : ProgressCancelled(t)
    \/ \E t \in TaskIds : cancel_task(t)
    \/ \E t \in TaskIds : CancelReturn(t)
    \/ \E t \in TaskIds : pause_task(t)
    \/ \E t \in TaskIds : RemoveTask(t)

Spec == Init /\ [][Next]_vars

\* Fair scheduling: the runtime polls every future that is ready (the
\* steps of start_download and of each supervised execution, the sleep of
\* the retry loop included), and every child process ends.  The timeout,
\* the progress task and the user's calls are under no obligation.
Fairness ==
    /\ WF_vars(SubmitCreate) /\ WF_vars(SubmitSetActive)
    /\ WF_vars(SubmitSpawn) /\ WF_vars(SubmitInsert)
    /\ \A t \in TaskIds :
          /\ WF_vars(ExecPrecheck(t))
          /\ WF_vars(ChildExit(t))
          /\ WF_vars(AttemptExit(t))
          /\ WF_vars(AttemptCancel(t))
          /\ WF_vars(AttemptKilled(t))
          /\ WF_vars(RetryWake(t))
          /\ WF_vars(ExecCancelArm(t))

\* The scenarios followed under fair scheduling: as Scenarios, with
\* MaxFairLines output lines (the progress task has no part in how an
\* execution ends).
FairScenarios ==
    { [tasks |-> 1, ops |-> MaxOps, lines |-> MaxFairLines, fails |-> MaxFails],
      [tasks |-> MaxTasks, ops |-> 0, lines |-> 0, fails |-> 0] }

InitFair ==
    /\ Fresh
    /\ left \in FairScenarios
    /\ probe = NoProbe

SpecFair == InitFair /\ [][Next]_vars /\ Fairness

\* Scheduling of a cancellation alone: the runtime polls an execution
\* whose token was cancelled (the cancelled() arm of its select! wakes it)
\* and a cancel_task whose awaited join handle has resolved.  The child
\* may run for ever, and so may the sleep of the retry loop.
CancelFairness ==
    \A t \in TaskIds :
       /\ WF_vars(ExecCancelArm(t))
       /\ WF_vars(CancelReturn(t))

SpecCancel == InitFair /\ [][Next]_vars /\ CancelFairness

\* ------------------------------------------------- calls on their own
\* retry_async, calculate_delay, the classifiers and is_retryable are
\* called on their own, as error_recovery_tests does; the manager stays as
\* DownloadManager::new left it.
manager_vars ==
    <<tasks, nextId, task_handles, token, exec, child, prog, sub, canc,
      returned, left, pending, emitted, cancel_hit, missed>>

NoBudget == [tasks |-> 0, ops |-> 0, lines |-> 0, fails |-> 0]

\* The delay settings the source builds a RetryConfig with.
SourceConfigs == {for_network, for_filesystem, default_config, test_config}

\* Policies: those settings with max_attempts from 0 up.
RetryConfigs ==
    {[c EXCEPT !.max_attempts = n] : c \in SourceConfigs, n \in 0..MaxPolicy}

\* What one invocation of the operation can return.
OpResults ==
    { Ok("Success"),
      Err(MediaForgeError("NetworkError", "Temporary failure")),
      Err(MediaForgeError("TemporaryError", "Resource unavailable")),
      Err(MediaForgeError("InvalidUrl", "Bad URL")),
      Err(MediaForgeError("YtDlpError", "Download was cancelled")),
      Err(MediaForgeError("FFmpegError", "Conversion was cancelled")) }

\* retry_async(config, operation) called: at the head of its loop, before
\* attempt 1.
RetryCalls ==
    {[fn |-> "retry_async", config |-> c, overflow_checks |-> b,
      pc |-> "call", attempt |-> 1, calls |-> 0, outs |-> << >>,
      slept |-> << >>, result |-> None] :
        c \in RetryConfigs, b \in BOOLEAN}

\* A loop that would invoke the operation before it tests the attempt
\* number against max_attempts.
RetryInvokeBeforeTest(r) ==
    /\ probe.fn = "retry_async"
    /\ probe.pc = "call"
    /\ LET d == retry_decide(probe.config, probe.attempt, r.ok,
                             IF r.ok THEN FALSE ELSE is_retryable(r.err))
           delay == calculate_delay(probe.config, probe.attempt,
                                    probe.overflow_checks)
       IN  probe' =
             [probe EXCEPT
                !.calls = @ + 1,
                !.outs = Append(@, r),
                !.pc = IF d # "sleep" THEN "returned"
                       ELSE IF IsSome(delay) THEN "sleep" ELSE "panicked",
                !.slept = IF d = "sleep" /\ IsSome(delay)
                          THEN Append(@, Unwrap(delay)) ELSE @,
                !.result = IF d = "sleep" THEN None ELSE Some(r)]
    /\ UNCHANGED manager_vars

\* retry_async: operation().await returns r on the current attempt; the
\* match returns, or computes the delay and goes to sleep.
RetryInvoke(r) ==
    /\ probe.fn = "retry_async"
    /\ probe.pc = "call"
    /\ probe.attempt <= probe.config.max_attempts
    /\ LET d == retry_decide(probe.config, probe.attempt, r.ok,
                             IF r.ok THEN FALSE ELSE is_retryable(r.err))
           delay == calculate_delay(probe.config, probe.attempt,
                                    probe.overflow_checks)
       IN  probe' =
             [probe EXCEPT
                !.calls = @ + 1,
                !.outs = Append(@, r),
                !.pc = IF d # "sleep" THEN "returned"
                       ELSE IF IsSome(delay) THEN "sleep" ELSE "panicked",
                !.slept = IF d = "sleep" /\ IsSome(delay)
                          THEN Append(@, Unwrap(delay)) ELSE @,
                !.result = IF d = "sleep" THEN None ELSE Some(r)]
    /\ UNCHANGED manager_vars

\* retry_async: the range 1..=max_attempts holds no attempt to make (it is
\* empty when max_attempts is 0); the call returns the last error or, with
\* none, TemporaryError("All retry attempts exhausted").
RetryExhausted ==
    /\ probe.fn = "retry_async"
    /\ probe.pc = "call"
    /\ probe.attempt > probe.config.max_attempts
    /\ probe' =
          [probe EXCEPT
             !.pc = "returned",
             !.result =
                Some(IF probe.outs = << >>
                     THEN Err(MediaForgeError("TemporaryError",
                                              "All retry attempts exhausted"))
                     ELSE probe.outs[Len(probe.outs)])]
    /\ UNCHANGED manager_vars

\* retry_async: the sleep is over, the loop goes to the next attempt.
RetrySleepOver ==
    /\ probe.fn = "retry_async"
    /\ probe.pc = "sleep"
    /\ probe' = [probe EXCEPT !.pc = "call", !.attempt = @ + 1]
    /\ UNCHANGED manager_vars

\* config.calculate_delay(attempt) about to be called.
DelayCalls ==
    {[fn |-> "calculate_delay", config |-> c, attempt |-> a,
      overflow_checks |-> b, done |-> FALSE, delay |-> None] :
        c \in SourceConfigs, a \in 1..MaxDelayAttempt, b \in BOOLEAN}

\* The call returns its delay, or panics (done with no delay).
CalculateDelay ==
    /\ probe.fn = "calculate_delay"
    /\ ~probe.done
    /\ probe' = [probe EXCEPT
                   !.done = TRUE,
                   !.delay = calculate_delay(probe.config, probe.attempt,
                                             probe.overflow_checks)]
    /\ UNCHANGED manager_vars

\* Failure texts handed to the classifiers and carried by errors.
Messages ==
    { "permission denied", "resource temporarily unavailable",
      "no space left on device", "network timeout occurred",
      "private video not available", "unsupported codec",
      "Access Denied", "temporary error: private video",
      "unknown failure" }

\* Exit codes handed to the classifiers.
ClassifiedCodes == {None, Some(1), Some(2), Some(3), Some(126), Some(255)}

\* A classifier of one tool family about to be called.
ClassifyCalls ==
    {[fn |-> "classify", family |-> f, message |-> m, exit_code |-> c,
      done |-> FALSE, out |-> None] :
        f \in {"ytdlp", "ffmpeg"}, m \in Messages, c \in ClassifiedCodes}

\* The classifier returns; out is the error with what is_retryable and
\* to_string say of it.
Classify ==
    /\ probe.fn = "classify"
    /\ ~probe.done
    /\ probe' =
          [probe EXCEPT
             !.done = TRUE,
             !.out = Some(Outcome(
                        IF probe.family = "ytdlp"
                        THEN classify_ytdlp_error(probe.message, probe.exit_code)
                        ELSE classify_ffmpeg_error(probe.message, probe.exit_code)))]
    /\ UNCHANGED manager_vars

\* The variants of MediaForgeError.
ErrorKinds ==
    { "DownloadError", "ConversionError", "InvalidUrl", "FileSystemError",
      "FFmpegError", "YtDlpError", "TaskNotFound", "InvalidSettings",
      "MissingDependency", "NetworkError", "DiskSpaceError",
      "PermissionError", "TemporaryError", "ResourceExhausted" }

\* error.is_retryable() about to be called.
RetryableCalls ==
    {[fn |-> "is_retryable", error |-> MediaForgeError(k, m),
      done |-> FALSE, retryable |-> FALSE] :
        k \in ErrorKinds, m \in Messages}

IsRetryable ==
    /\ probe.fn = "is_retryable"
    /\ ~probe.done
    /\ probe' = [probe EXCEPT !.done = TRUE,
                               !.retryable = is_retryable(probe.error)]
    /\ UNCHANGED manager_vars

\* A new FFmpegProgress tracker, no line fed yet.
TrackerCalls ==
    {[fn |-> "parse_line", self |-> NewFFmpegProgress, fed |-> << >>,
      out |-> None]}

\* tracker.parse_line(line) on the next line of the child's output.
ParseLine(line) ==
    /\ probe.fn = "parse_line"
    /\ Len(probe.fed) < MaxFed
    /\ LET r == ParsedFfmpegLine[probe.self][line] IN
       probe' = [probe EXCEPT !.self = r.self, !.out = r.out,
                              !.fed = Append(@, line)]
    /\ UNCHANGED manager_vars

\* The progress task of convert_video_attempt about to read the child's
\* first line; progress is the task's progress field, 0 as create_task
\* left it.
ConvertProgressCalls ==
    {[fn |-> "convert_progress", fed |-> << >>, progress |-> 0,
      wrote |-> FALSE]}

\* The progress task reads a line: a parsed progress is written to the
\* task (and emitted), any other line is dropped.
ConvertProgressLine(line) ==
    /\ probe.fn = "convert_progress"
    /\ Len(probe.fed) < MaxFed
    /\ LET r == ParsedFfmpegProgress[line] IN
       probe' = [probe EXCEPT !.fed = Append(@, line),
                              !.progress = IF IsSome(r) THEN Unwrap(r) ELSE @,
                              !.wrote = IsSome(r)]
    /\ UNCHANGED manager_vars

InitCalls ==
    /\ Fresh
    /\ left = NoBudget
    /\ probe \in RetryCalls \cup DelayCalls \cup ClassifyCalls
                  \cup RetryableCalls \cup TrackerCalls
                  \cup ConvertProgressCalls

NextCalls ==
    \/ \E r \in OpResults : RetryInvoke(r)
    \/ RetrySleepOver
    \/ RetryExhausted
    \/ CalculateDelay
    \/ Classify
    \/ IsRetryable
    \/ \E l \in FfmpegLines : ParseLine(l)
    \/ \E l \in FfmpegLines : ConvertProgressLine(l)

SpecCalls == InitCalls /\ [][NextCalls]_vars

\* The manager's behaviours together with the calls on their own.
InitJobs == Init \/ InitCalls

NextJobs == Next \/ NextCalls

SpecJobs == InitJobs /\ [][NextJobs]_vars

\* ------------------------------------------------------------------ claims
Terminal == {"Completed", "Failed", "Cancelled"}

\* Tasks in the registry before and after a step.
Kept == DOMAIN tasks \cap DOMAIN tasks'

\* C1: once a task's status is Completed, Failed or Cancelled, no step
\* changes its status, progress or error.
C1_TerminalFinal ==
    [][\A t \in Kept :
          tasks[t].status \in Terminal =>
             /\ tasks'[t].status = tasks[t].status
             /\ tasks'[t].progress = tasks[t].progress
             /\ tasks'[t].error = tasks[t].error]_vars

\* C2: when a cancel_task that found a record returns, the execution has
\* finished and a child of it that is still alive has been sent the signal.
C2_CancelSignalsChild ==
    [][\A t \in TaskIds :
          CancelReturn(t) =>
             /\ exec[t].pc = "done"
             /\ child[t].st = "alive" => child[t].signalled]_vars

\* C3: when a cancel_task that found a record returns and the task is in
\* the registry, the record is gone, the status is Cancelled and the error
\* holds a reason.
C3_CancelLeavesCancelled ==
    [][\A t \in TaskIds :
          CancelReturn(t) /\ t \in DOMAIN tasks =>
             /\ t \notin task_handles
             /\ tasks[t].status = "Cancelled"
             /\ IsSome(tasks[t].error)]_vars

\* C4: cancel_task on a task of the registry that has no record returns at
\* once (no await on a join handle begins) and leaves the task Cancelled
\* with a non-empty error.
C4_CancelWithoutRecord ==
    [][\A t \in TaskIds :
          cancel_task(t) /\ t \in DOMAIN tasks /\ t \notin task_handles =>
             /\ canc' = canc
             /\ tasks'[t].status = "Cancelled"
             /\ IsSome(tasks'[t].error)
             /\ Unwrap(tasks'[t].error) # ""]_vars

\* A task that completed (progress 100 written by the Completed branch) and
\* whose token was never cancelled carries the no-record cancel's write.
C4_Witness ==
    \E t \in DOMAIN tasks :
       /\ exec[t].pc = "done"
       /\ ~token[t]
       /\ tasks[t].progress = 1000
       /\ tasks[t].status = "Cancelled"
       /\ tasks[t].error = Some("Task cancelled by user")

\* The step on which start_download returns Ok(task_ids), and the ids.
SubmitReturnsOk == SubmitInsert /\ Tail(sub.items) = << >>

\* The ids of the call in progress are pairwise distinct, one per url.
DistinctIds ==
    /\ Len(sub.ids) = sub.n
    /\ \A i, j \in 1..Len(sub.ids) : sub.ids[i] = sub.ids[j] => i = j

\* C5 as stated: start_download of N valid urls returns N pairwise distinct
\* ids and every one of the tasks is Downloading when the call returns.
C5_AllActiveAtReturn ==
    [][SubmitReturnsOk =>
          /\ DistinctIds
          /\ \A i \in 1..Len(sub.ids) :
                /\ sub.ids[i] \in DOMAIN tasks'
                /\ tasks'[sub.ids[i]].status = "Downloading"]_vars

\* C5 amended: start_download of N valid urls returns N pairwise distinct
\* ids and none of the tasks is Queued when the call returns: a task still
\* in the registry is Downloading unless its execution has already ended
\* or a pause or cancel call has written it.
C5_NoneQueuedAtReturn ==
    [][SubmitReturnsOk =>
          /\ DistinctIds
          /\ \A i \in 1..Len(sub.ids) :
                sub.ids[i] \in DOMAIN tasks' =>
                   LET st == tasks'[sub.ids[i]].status IN
                   /\ st # "Queued"
                   /\ \/ st = "Downloading"
                      \/ st \in {"Paused", "Cancelled"}
                      \/ exec'[sub.ids[i]].pc = "done"]_vars

\* A call returned a batch: one task still Downloading, another already
\* Failed by its execution.
C5_Witness ==
    /\ sub.pc = "idle"
    /\ Cardinality(returned) >= 2
    /\ \E t, u \in returned \cap DOMAIN tasks :
          /\ tasks[t].status = "Downloading"
          /\ tasks[u].status = "Failed"

\* C6: when start_download returns a validation error, the call has created
\* no task, spawned no execution and inserted no record.
C6_RejectedSubmitCreatesNothing ==
    [][(sub.pc = "loop" /\ ~Head(sub.items) /\ sub'.pc = "idle") =>
          /\ nextId = sub.base
          /\ \A t \in TaskIds :
                t > sub.base => exec[t].pc = "none" /\ t \notin task_handles]_vars

\* C7: a task whose id start_download has returned and whose status is
\* Downloading or Paused has a record.
C7_RecordWhileNonTerminal ==
    \A t \in returned \cap DOMAIN tasks :
       tasks[t].status \in {"Downloading", "Paused"} => t \in task_handles

\* Ids created by the start_download call in progress.
InCall == {sub.ids[i] : i \in 1..Len(sub.ids)}

\* C8: once a task's execution has ended and the start_download call that
\* created it has returned, the task has no record.
C8_NoRecordLeaked ==
    \A t \in TaskIds :
       exec[t].pc = "done" /\ t \notin InCall => t \notin task_handles

\* C9: progress (in tenths of a percent) lies in 0..1000.
C9_ProgressInRange ==
    \A t \in DOMAIN tasks : tasks[t].progress >= 0 /\ tasks[t].progress <= 1000

\* C10: while a task is Downloading before and after a step, the step does
\* not lower its progress.
C10_ProgressMonotone ==
    [][\A t \in Kept :
          tasks[t].status = "Downloading" /\ tasks'[t].status = "Downloading" =>
             tasks'[t].progress >= tasks[t].progress]_vars

\* The first k invocations of the retry_async call failed with a retryable
\* error.
RetryableRun(k) ==
    \A i \in 1..k : ~probe.outs[i].ok /\ is_retryable(probe.outs[i].err)

\* C11: retry_async under a policy of n attempts, the operation failing
\* with a retryable error k < n times and then succeeding: the call goes on
\* after each of the k failures and returns the success value on
\* invocation k + 1, which is the last.
C11_RetryThenSuccess ==
    probe.fn = "retry_async" =>
       LET m == Len(probe.outs) IN
       /\ (RetryableRun(m) /\ m < probe.config.max_attempts) =>
             probe.pc \in {"sleep", "call"} /\ probe.result = None
       /\ (m >= 1 /\ RetryableRun(m - 1) /\ probe.outs[m].ok) =>
             /\ probe.pc = "returned"
             /\ probe.result = Some(Ok("Success"))
             /\ probe.calls = m

\* The case of test_retry_mechanism: 3 attempts, two failures, success on
\* the third invocation.
C11_Witness ==
    /\ probe.fn = "retry_async"
    /\ probe.config.max_attempts = 3
    /\ probe.calls = 3
    /\ RetryableRun(2)
    /\ probe.result = Some(Ok("Success"))

\* C12: an invocation of retry_async's operation that returns an error
\* which is not retryable is the last one: the call has returned that
\* error, with no sleep after it; as the first invocation it is the only
\* one.
C12_FatalErrorReturnsAtOnce ==
    probe.fn = "retry_async" =>
       \A i \in 1..Len(probe.outs) :
          (~probe.outs[i].ok /\ ~is_retryable(probe.outs[i].err)) =>
             /\ i = Len(probe.outs)
             /\ probe.calls = i
             /\ probe.pc = "returned"
             /\ probe.result = Some(probe.outs[i])
             /\ Len(probe.slept) = i - 1

\* A non-retryable error on the first invocation, and on a later one.
C12_Witness ==
    /\ probe.fn = "retry_async"
    /\ probe.calls = 1
    /\ probe.pc = "returned"
    /\ probe.result = Some(Err(MediaForgeError("InvalidUrl", "Bad URL")))

\* C13: while every invocation of retry_async's operation fails with a
\* retryable error, the call has slept calculate_delay(a) after each failed
\* attempt a but the last of the policy, makes no more than max_attempts
\* invocations and returns the error of invocation max_attempts (of a
\* policy of at least one attempt).
C13_RetryExhaustion ==
    probe.fn = "retry_async" =>
       LET m == Len(probe.outs)
           n == probe.config.max_attempts
           sleeps == IF m < n THEN m ELSE n - 1
       IN  RetryableRun(m) =>
              /\ probe.calls = m
              /\ m <= n
              /\ probe.slept =
                    [a \in 1..sleeps |->
                        Unwrap(calculate_delay(probe.config, a,
                                               probe.overflow_checks))]
              /\ (m = n /\ n >= 1) =>
                    /\ probe.pc = "returned"
                    /\ probe.result = Some(probe.outs[n])

\* The network policy exhausted: five invocations, sleeps of 3, 6, 12, 24.
C13_Witness ==
    /\ probe.fn = "retry_async"
    /\ probe.config = for_network
    /\ probe.calls = 5
    /\ RetryableRun(5)
    /\ probe.slept = <<3, 6, 12, 24>>
    /\ probe.pc = "returned"
    /\ ~Unwrap(probe.result).ok

\* min(base * 2^e, cap) over the integers, computed without leaving the
\* model's integers.
CappedDoubling(base, e, cap) ==
    IF base = 0 THEN 0
    ELSE IF e > 30 THEN cap
    ELSE IF base >= (cap + 2^e - 1) \div (2^e) THEN cap
    ELSE base * 2^e

\* C14: calculate_delay(a) for a >= 1 returns min(base_delay * 2^(a-1),
\* max_delay) with exponential growth (so at most max_delay and not below
\* the delay of attempt a - 1) and base_delay without; the network policy
\* gives 3, 6, 12 for attempts 1, 2, 3.
C14_Backoff ==
    (probe.fn = "calculate_delay" /\ probe.done) =>
       LET c == probe.config
           a == probe.attempt
       IN  /\ IsSome(probe.delay)
           /\ IF c.exponential_backoff
              THEN /\ Unwrap(probe.delay) =
                         CappedDoubling(c.base_delay, a - 1, c.max_delay)
                   /\ Unwrap(probe.delay) <= c.max_delay
                   /\ a > 1 =>
                        Unwrap(probe.delay) >=
                           CappedDoubling(c.base_delay, a - 2, c.max_delay)
              ELSE Unwrap(probe.delay) = c.base_delay
           /\ (c = for_network /\ a <= 3) =>
                 Unwrap(probe.delay) = <<3, 6, 12>>[a]

\* The classifier call has returned for this family, text and exit code.
Classified(family, message, exit_code) ==
    /\ probe.fn = "classify"
    /\ probe.done
    /\ probe.family = family
    /\ probe.message = message
    /\ probe.exit_code = exit_code

\* C15: classify_ffmpeg_error("permission denied", Some(126)) is a
\* PermissionError and not retryable, ("resource temporarily unavailable",
\* Some(1)) a TemporaryError and retryable; ("no space left on device",
\* None) is a DiskSpaceError and not retryable for both classifiers.
C15_ReferenceCases ==
    /\ Classified("ffmpeg", "permission denied", Some(126)) =>
          /\ Unwrap(probe.out).err.kind = "PermissionError"
          /\ ~Unwrap(probe.out).retryable
    /\ Classified("ffmpeg", "resource temporarily unavailable", Some(1)) =>
          /\ Unwrap(probe.out).err.kind = "TemporaryError"
          /\ Unwrap(probe.out).retryable
    /\ \A f \in {"ytdlp", "ffmpeg"} :
          Classified(f, "no space left on device", None) =>
             /\ Unwrap(probe.out).err.kind = "DiskSpaceError"
             /\ ~Unwrap(probe.out).retryable

\* The permission case has been classified.
C15_Witness ==
    /\ Classified("ffmpeg", "permission denied", Some(126))
    /\ Unwrap(probe.out).err =
          MediaForgeError("PermissionError", "permission denied")

\* C16: for either classifier, a text with a permission / access indicator
\* together with exit code 1 is classified PermissionError, not retryable.
C16_PermissionBeforeGeneric ==
    \A f \in {"ytdlp", "ffmpeg"}, m \in {"permission denied", "Access Denied"} :
       Classified(f, m, Some(1)) =>
          /\ Unwrap(probe.out).err.kind = "PermissionError"
          /\ ~Unwrap(probe.out).retryable

\* C17: is_retryable is true exactly for the kinds NetworkError and
\* TemporaryError, whatever the message.
C17_RetryableByKind ==
    (probe.fn = "is_retryable" /\ probe.done) =>
       (probe.retryable <=>
           probe.error.kind \in {"NetworkError", "TemporaryError"})

\* C18: for either classifier, a failure with no network, disk-full,
\* permission or content-unavailable indicator in its text or exit code is
\* classified TemporaryError and is retryable.
C18_DefaultTemporary ==
    \A f \in {"ytdlp", "ffmpeg"}, c \in {None, Some(3)} :
       Classified(f, "unknown failure", c) =>
          /\ Unwrap(probe.out).err.kind = "TemporaryError"
          /\ Unwrap(probe.out).retryable

\* C19: the step of the timeout arm (taken while the work arm is suspended)
\* leaves the task, if in the registry, Failed with the timeout reason,
\* the record removed and the execution ended, so that no reconcile of the
\* work arm follows.
C19_TimeoutOutcome ==
    [][\A t \in TaskIds :
          ExecTimeout(t) =>
             /\ t \in DOMAIN tasks =>
                   /\ tasks'[t].status = "Failed"
                   /\ tasks'[t].error = Some("Download timed out after 1 hour")
             /\ t \notin task_handles'
             /\ exec'[t].pc = "done"]_vars

\* The timeout arm has run on a task still in the registry.
C19_Witness ==
    \E t \in DOMAIN tasks :
       /\ exec[t].pc = "done"
       /\ t \notin task_handles
       /\ tasks[t].status = "Failed"
       /\ tasks[t].error = Some("Download timed out after 1 hour")

\* C20: the timeout arm, taken while a child of the task is alive, sends
\* the child the termination signal; once the execution has ended by the
\* timeout, no child of the task runs unsignalled and no progress line is
\* written to the task.
C20_TimeoutStopsWork ==
    [][\A t \in TaskIds :
          /\ (ExecTimeout(t) /\ child[t].st = "alive") => child'[t].signalled
          /\ ( /\ exec[t].pc = "done"
               /\ t \in DOMAIN tasks
               /\ tasks[t].error = Some("Download timed out after 1 hour") ) =>
                /\ child[t].st = "alive" => child[t].signalled
                /\ ~ProgressCallback(t)]_vars

\* A task that was created and is no longer in the registry.
Removed(t) == t <= nextId /\ t \notin DOMAIN tasks

\* The steps that address an update to task t: the progress callback, the
\* writes of the execution (Completed, Failed, the cancellation and the
\* timeout arm), cancel_task and pause_task.
UpdateAddressedTo(t) ==
    \/ ProgressCallback(t)
    \/ ExecPrecheck(t) \/ AttemptExit(t) \/ AttemptKilled(t) \/ RetryWake(t)
    \/ ExecCancelArm(t) \/ ExecTimeout(t)
    \/ cancel_task(t) \/ pause_task(t)

\* C21: once remove_task has removed a task, every step that addresses an
\* update to it leaves the registry as it is, and no step brings the task
\* back into the registry.
C21_RemovedStaysRemoved ==
    [][\A t \in TaskIds :
          Removed(t) =>
             /\ t \notin DOMAIN tasks'
             /\ UpdateAddressedTo(t) => tasks' = tasks]_vars

\* The last step addressed a write to a removed task and pushed its
\* snapshot: the execution ended, or a progress callback ran, after the
\* removal.
C21_Witness ==
    \E t \in TaskIds :
       /\ Removed(t)
       /\ emitted = {t}

\* C22: a remove_task step changes the registry only: the records, the
\* cancellation tokens, the children (none is signalled), the executions
\* and the progress tasks are as before, so an execution that was running
\* is still at the same point with its child.
C22_RemoveOnlyRegistry ==
    [][\A t \in TaskIds :
          RemoveTask(t) =>
             /\ task_handles' = task_handles
             /\ token' = token
             /\ child' = child
             /\ exec' = exec
             /\ prog' = prog
             /\ canc' = canc
             /\ \A u \in DOMAIN tasks \ {t} :
                   u \in DOMAIN tasks' /\ tasks'[u] = tasks[u]]_vars

\* A running task has been removed: its execution waits for its child,
\* which is alive and was sent no signal, and its record is still there.
C22_Witness ==
    \E t \in TaskIds :
       /\ Removed(t)
       /\ exec[t].pc = "wait"
       /\ child[t].st = "alive"
       /\ ~child[t].signalled
       /\ ~token[t]
       /\ t \in task_handles

\* C23: a pause_task step on a task of the registry sets its status to
\* Paused and leaves its name, progress, speed, eta, error and file_path,
\* the records, the tokens, the children, the executions and the progress
\* tasks as they are.
C23_PauseOnlyStatus ==
    [][\A t \in TaskIds :
          pause_task(t) /\ t \in DOMAIN tasks =>
             /\ tasks' = [tasks EXCEPT ![t].status = "Paused"]
             /\ task_handles' = task_handles
             /\ token' = token
             /\ child' = child
             /\ exec' = exec
             /\ prog' = prog
             /\ pending' = pending]_vars

\* A task paused while its child runs: the execution still waits for the
\* unsignalled child and the progress written before the pause is kept.
C23_Witness ==
    \E t \in DOMAIN tasks :
       /\ tasks[t].status = "Paused"
       /\ tasks[t].progress = 452
       /\ tasks[t].file_path = Some("a.mp4")
       /\ exec[t].pc = "wait"
       /\ child[t].st = "alive"
       /\ ~child[t].signalled
       /\ ~token[t]
       /\ t \in task_handles

\* C24: under fair scheduling no task stays for ever in the registry with
\* its execution unfinished and a status other than Completed, Failed or
\* Cancelled: again and again it is removed, or Completed, Failed or
\* Cancelled, or its execution has ended; and the step that ends an
\* execution leaves the task, if in the registry, Completed, Failed or
\* Cancelled.
C24_EventuallyTerminal ==
    /\ \A t \in TaskIds :
          []<>(\/ t \notin DOMAIN tasks
               \/ tasks[t].status \in Terminal
               \/ exec[t].pc = "done")
    /\ [][\A t \in TaskIds :
            (exec[t].pc # "done" /\ exec'[t].pc = "done" /\ t \in DOMAIN tasks') =>
               tasks'[t].status \in Terminal]_vars

\* An execution that went through all five attempts has ended and left
\* the task Failed with the last network error.
C24_Witness ==
    \E t \in DOMAIN tasks :
       /\ exec[t].pc = "done"
       /\ left.fails = 0
       /\ tasks[t].status = "Failed"
       /\ tasks[t].error = Some(AttemptExitError[Some(1)].text)

\* C25: a step that changes the status or the progress of a task pushes
\* a snapshot of that task.
C25_EmitOnEveryChange ==
    [][\A t \in Kept :
          (tasks'[t].status # tasks[t].status
             \/ tasks'[t].progress # tasks[t].progress) =>
             t \in emitted']_vars

\* What the lines of the alphabet declare: the total duration of a header
\* and the position of a progress line, in milliseconds.
DeclaredMs ==
    [l \in FfmpegLines |->
        CASE l = "  Duration: 00:01:23.45, start: 0.000000, bitrate: 1234 kb/s"
                -> Some(83450)
          [] l = "  Duration: 00:00:10.00, start: 0.000000, bitrate: 800 kb/s"
                -> Some(10000)
          [] OTHER -> None]

PositionMs ==
    [l \in FfmpegLines |->
        CASE l = "out_time_ms=41725"  -> Some(41725)
          [] l = "out_time_ms=5000"   -> Some(5000)
          [] l = "out_time_ms=166900" -> Some(166900)
          [] OTHER -> None]

\* The duration declared by the last header among the lines fed.
RECURSIVE LastDeclared(_)
LastDeclared(fed) ==
    IF fed = << >> THEN None
    ELSE IF IsSome(DeclaredMs[fed[Len(fed)]]) THEN DeclaredMs[fed[Len(fed)]]
    ELSE LastDeclared(SubSeq(fed, 1, Len(fed) - 1))

\* C26: when the line just fed is a position line at p, the tracker
\* returns min(100, 100 * p / T) if a header declaring T > 0 was fed
\* before and nothing if no header was; 83.45 s then 41.725 s gives 50.0.
C26_TrackerPercentage ==
    (probe.fn = "parse_line" /\ probe.fed # << >>
        /\ IsSome(PositionMs[probe.fed[Len(probe.fed)]])) =>
       LET p == Unwrap(PositionMs[probe.fed[Len(probe.fed)]])
           T == LastDeclared(probe.fed)
       IN  /\ (IsSome(T) /\ T # Some(0)) =>
                probe.out =
                   Some(IF p >= Unwrap(T) THEN 1000 ELSE (1000 * p) \div Unwrap(T))
           /\ ~IsSome(T) => probe.out = None
           /\ (T = Some(83450) /\ p = 41725) => probe.out = Some(500)

\* The reference case: the 83.45 s header, then the position 41.725 s.
C26_Witness ==
    /\ probe.fn = "parse_line"
    /\ probe.fed = <<"  Duration: 00:01:23.45, start: 0.000000, bitrate: 1234 kb/s",
                     "out_time_ms=41725">>
    /\ probe.out = Some(500)

\* The step spawns a child process for task t.
Spawns(t) == child[t].st # "alive" /\ child'[t].st = "alive"

\* C27: every child spawned for a download task belongs to a new attempt,
\* numbered at most 5, of the task's only execution; and the retry_async
\* call of convert_video_cancellable, made with for_filesystem, invokes
\* the single-attempt worker at most 2 times.
C27_BoundedAttempts ==
    [][/\ \A t \in TaskIds :
             Spawns(t) =>
                /\ exec'[t].attempt = exec[t].attempt + 1
                /\ exec'[t].attempt <= 5
                /\ exec[t].pc \in {"start", "sleep"}
       /\ (probe'.fn = "retry_async" /\ probe'.config = for_filesystem) =>
             probe'.calls <= 2]_vars

\* The fifth child of a download has ended with the retryable exit code 1
\* and the execution is about to read it.
C27_Witness ==
    \E t \in TaskIds :
       /\ exec[t].pc = "wait"
       /\ exec[t].attempt = 5
       /\ child[t].st = "exited"
       /\ child[t].code = Some(1)

\* C28: once a cancel_task call made for a submitted task while its work
\* was in progress (a child running, or the retry loop asleep between two
\* attempts) has returned, no step spawns a child for the task.
C28_CancelStopsWork ==
    [][\A t \in TaskIds :
          (cancel_hit[t] /\ ~canc[t]) => ~Spawns(t)]_vars

\* C29: no task is Queued while its execution has been spawned or a child
\* of it is alive.
C29_ActiveBeforeSpawn ==
    \A t \in DOMAIN tasks :
       tasks[t].status = "Queued" =>
          exec[t].pc = "none" /\ child[t].st # "alive"

\* The execution of the task start_download is working on has been
\* spawned and has started its child before the record is inserted; the
\* task is Downloading.
C29_Witness ==
    /\ sub.pc = "spawned"
    /\ SubmitCur \in DOMAIN tasks
    /\ tasks[SubmitCur].status = "Downloading"
    /\ exec[SubmitCur].pc = "wait"
    /\ child[SubmitCur].st = "alive"

\* C30: a task whose status is Completed has progress 100.
C30_CompletedIsFull ==
    \A t \in DOMAIN tasks :
       tasks[t].status = "Completed" => tasks[t].progress = 1000

\* C31: a task that carries an error is Failed or Cancelled.
C31_ErrorOnlyWhenFailedOrCancelled ==
    \A t \in DOMAIN tasks :
       IsSome(tasks[t].error) => tasks[t].status \in {"Failed", "Cancelled"}

\* C32: a task that is Completed, Failed or Cancelled carries neither a
\* speed nor an eta; one that carries either is Downloading.
C32_SpeedEtaOnlyWhileActive ==
    \A t \in DOMAIN tasks :
       (IsSome(tasks[t].speed) \/ IsSome(tasks[t].eta)) =>
          tasks[t].status = "Downloading"

\* The percentage an output line states: the number before the "%" of its
\* first word that ends with "%", None for a line that states none.
PercentageOf ==
    [l \in Lines |->
        LET w == FindEndsWith(SplitWhitespace(l), "%") IN
        IF IsSome(w) THEN ParseF32(TrimEndMatches(Unwrap(w), "%")) ELSE None]

\* C33: the callback of an output line that states no percentage leaves
\* the task's progress, speed, eta and status as they are.
C33_UnrecognizedLineIgnored ==
    [][\A t \in Kept :
          (ProgressCallback(t) /\ PercentageOf[Unwrap(pending[t])] = None) =>
             /\ tasks'[t].progress = tasks[t].progress
             /\ tasks'[t].speed = tasks[t].speed
             /\ tasks'[t].eta = tasks[t].eta
             /\ tasks'[t].status = tasks[t].status]_vars

\* C34: a progress the conversion's progress task has just written for a
\* position line at p is min(100, 100 * p / T) when a header declaring
\* the total T > 0 was printed before the line, and p over the default
\* total of 10 minutes when none was.
C34_AnnouncedTotalUsed ==
    (probe.fn = "convert_progress" /\ probe.wrote) =>
       LET n == Len(probe.fed)
           p == Unwrap(PositionMs[probe.fed[n]])
           T == LastDeclared(SubSeq(probe.fed, 1, n - 1))
           total == IF IsSome(T) /\ T # Some(0) THEN Unwrap(T) ELSE estimated_total_ms
       IN  probe.progress = (IF p >= total THEN 1000 ELSE (1000 * p) \div total)

\* C35: the error an attempt returns from its cancellation arm is not
\* retryable; a retry_async whose operation returned it has returned it,
\* with no sleep after it; and an execution whose attempt took its
\* cancellation arm goes nowhere but to its end: once there, or ended, it
\* starts no attempt and spawns no child.
C35_CancelledAttemptFinal ==
    /\ [](probe.fn = "retry_async" =>
            \A i \in 1..Len(probe.outs) :
               probe.outs[i] \in {Err(AttemptCancelledError.err),
                                  Err(ConversionCancelledError.err)} =>
                  /\ i = Len(probe.outs)
                  /\ probe.pc = "returned"
                  /\ probe.result = Some(probe.outs[i])
                  /\ Len(probe.slept) = i - 1)
    /\ [][\A t \in TaskIds :
            exec[t].pc \in {"kill", "done"} =>
               /\ exec'[t].pc \in {"kill", "done"}
               /\ exec'[t].attempt <= exec[t].attempt
               /\ ~Spawns(t)]_vars

\* An attempt that took its cancellation arm has returned: the execution
\* has ended and the task carries the attempt's error.
C35_Witness ==
    \E t \in DOMAIN tasks :
       /\ exec[t].pc = "done"
       /\ token[t]
       /\ tasks[t].status = "Failed"
       /\ tasks[t].error = Some(AttemptCancelledError.text)

\* C36: a step by which the retry loop of a task starts an attempt and
\* spawns its child finds no child of the task (the child of the attempt
\* before has exited and its exit has been read), and a task whose
\* execution has not started an attempt has no child.
C36_OneChildPerTask ==
    /\ [](\A t \in TaskIds :
             exec[t].pc \in {"none", "start"} => child[t].st = "none")
    /\ [][\A t \in TaskIds :
            (exec[t].pc \in {"start", "sleep"} /\ exec'[t].pc = "wait") =>
               /\ child[t].st = "none"
               /\ child'[t].st = "alive"
               /\ exec'[t].attempt = exec[t].attempt + 1]_vars

\* The second attempt's child runs.
C36_Witness ==
    \E t \in TaskIds :
       /\ exec[t].pc = "wait"
       /\ exec[t].attempt = 2
       /\ child[t].st = "alive"

\* C37: with the runtime polling the cancelled execution and the call,
\* and whatever the child and the retry loop do, no cancel_task call
\* awaits the execution for ever: again and again no call is waiting.
C37_CancelReturns ==
    \A t \in TaskIds : []<>(~canc[t])

\* A cancel_task made while the work was in progress took the record,
\* the execution ended in its cancellation arm and the call has returned.
C37_Witness ==
    \E t \in DOMAIN tasks :
       /\ cancel_hit[t]
       /\ token[t]
       /\ ~canc[t]
       /\ exec[t].pc = "done"
       /\ tasks[t].error = Some("Task was cancelled by user")

\* C38: while a cancel_task call awaits the execution of a task, the task
\* has no record, so a cancel_task call made for it meanwhile takes the
\* path without a record: it writes Cancelled, leaves the records, the
\* signal and the waiting call as they are and awaits nothing.
C38_OneCancelTakesRecord ==
    /\ [](\A t \in TaskIds : canc[t] => t \notin task_handles)
    /\ [][\A t \in TaskIds :
            (canc[t] /\ cancel_task(t)) =>
               /\ UNCHANGED <<task_handles, token, canc, exec, child>>
               /\ t \in DOMAIN tasks =>
                     /\ tasks'[t].status = "Cancelled"
                     /\ tasks'[t].error = Some("Task cancelled by user")]_vars

\* Two calls raced: one took the record and awaits the execution; the
\* execution has ended, writing its own outcome, and before the first call
\* returned a second call wrote cancel_task's reason over it.
C38_Witness ==
    \E t \in DOMAIN tasks :
       /\ canc[t]
       /\ token[t]
       /\ exec[t].pc = "done"
       /\ left.ops = MaxOps - 2
       /\ tasks[t].status = "Cancelled"
       /\ tasks[t].error = Some("Task cancelled by user")

\* C39: a cancel_task or pause_task call for an id that is not in the
\* registry leaves the registry as it is (no entry is created) and leaves
\* the record, the signal, the execution, the child and the waiting call
\* of every other task as they are.
C39_UnknownIdChangesNothing ==
    [][\A t \in TaskIds :
          (t \notin DOMAIN tasks /\ (cancel_task(t) \/ pause_task(t))) =>
             /\ tasks' = tasks
             /\ \A u \in TaskIds \ {t} :
                   /\ (u \in task_handles') = (u \in task_handles)
                   /\ token'[u] = token[u]
                   /\ canc'[u] = canc[u]
                   /\ exec'[u] = exec[u]
                   /\ child'[u] = child[u]
             /\ task_handles' \subseteq task_handles
             /\ UNCHANGED <<nextId, exec, child, sub, returned>>]_vars

\* The last step was a cancel_task call for a task that had been removed
\* from the registry: the task is still absent, and the call awaits the
\* execution whose record it took.
C39_Witness ==
    \E t \in TaskIds :
       /\ missed = {t}
       /\ t \in returned
       /\ t \notin DOMAIN tasks
       /\ canc[t]

\* C40: a retry_async call under a policy of 0 attempts never invokes its
\* operation and never sleeps, and what it returns is
\* Err(TemporaryError("All retry attempts exhausted")).
C40_ZeroAttempts ==
    (probe.fn = "retry_async" /\ probe.config.max_attempts = 0) =>
       /\ probe.calls = 0
       /\ probe.outs = << >>
       /\ probe.slept = << >>
       /\ probe.pc \in {"call", "returned"}
       /\ probe.pc = "call" => probe.result = None
       /\ probe.pc = "returned" =>
             /\ probe.result =
                   Some(Err(MediaForgeError("TemporaryError",
                                            "All retry attempts exhausted")))
             /\ ~Unwrap(probe.result).ok

\* The call under the network settings with 0 attempts has returned.
C40_Witness ==
    /\ probe.fn = "retry_async"
    /\ probe.config = [for_network EXCEPT !.max_attempts = 0]
    /\ probe.pc = "returned"
    /\ probe.calls = 0
====
